---- MODULE Spec2Model ----
(***************************************************************************)
(* Monitoring-session synchronisation of the road_sight dashboard.         *)
(*                                                                         *)
(* A monitor view (LiveMonitor, ParkingMonitor, SpaceMonitorView,          *)
(* PassengerMonitorView, SeatMonitorView) is a React function component.   *)
(* Its state hooks are the variables; every event-loop task (a click, a    *)
(* tick of the interval, the continuation of an await, the run of the      *)
(* passive effects) is one action.  A setState call re-renders the JSX,    *)
(* which is a function of the state; the passive effect of that render     *)
(* (useEffect with deps [entityId, isRunning]) runs in a later task,       *)
(* FlushEffects, so other continuations can run in between.                *)
(*                                                                         *)
(* The five views share the poll effect, handleStart and handleStop line   *)
(* for line; only LiveMonitor's handleStop differs (it sets the status to  *)
(* null).  kind = "camera" is LiveMonitor, kind = "gate" is ParkingMonitor *)
(* and stands for the three views that repeat its code.  The start button  *)
(* is taken to be enabled (LiveMonitor: a URL has been typed; the others:  *)
(* a stream URL is configured).                                            *)
(*                                                                         *)
(* The REST backend is not part of the front-end sources; its worker is    *)
(* modelled from the specification (WorkerAfter, BackendReply, WorkerStep).*)
(*                                                                         *)
(* LiveMonitor also keeps a WebSocket to /ws/detections, opened and closed *)
(* by an effect with the same deps, and the ten newest detections of its   *)
(* camera.  The zone editors (SpaceEditor, whose file holds two            *)
(* definitions, and SeatEditor) keep a draft polygon in native frame       *)
(* coordinates, a label and the list of saved zones; editorKind =          *)
(* "letterbox" is the first SpaceEditor definition and SeatEditor,         *)
(* "stretch" the second SpaceEditor definition.  Coordinates are exact     *)
(* rationals [n, d] in lowest terms.  The zone store of the backend is     *)
(* modelled from the specification (ZoneReply).  The frame of a zone       *)
(* editor is an <img> whose load and error events are actions; its canvas  *)
(* is rendered only while the frame is loaded.                             *)
(*                                                                         *)
(* LineEditor keeps the two endpoints of the counting line in normalised   *)
(* coordinates and the endpoint under the pointer; the pointer is drawn    *)
(* from a grid that reaches beyond the canvas.  The page that opens the    *)
(* line editor and receives onSave / onClose is not part of the sources    *)
(* and is modelled from the specification (LineClosed, onSave, onClose).   *)
(*                                                                         *)
(* Spec           one view on one entity with its start/stop commands      *)
(* SpecPoller     the poller of a view whose entity prop changes           *)
(* FairSpecPoller SpecPoller with the interval, backend and continuations  *)
(*                weakly fair                                              *)
(* SpecChannel    the frames an open socket of a running camera delivers   *)
(* SpecTwo        a view and a second view instance on another entity      *)
(* SpecTransform  one click on the frame of an editor, for every size      *)
(* SpecEditor     drawing, committing and deleting zones in an editor      *)
(* SpecFrame      loading the frame of a zone editor, with failures        *)
(* SpecLine       dragging, swapping, saving and cancelling the line       *)
(* SpecBuffer     the detections buffer of a camera view under switches,   *)
(*                polls and stop commands                                  *)
(* SpecSwitch     a view whose entity prop changes during a start command  *)
(***************************************************************************)
EXTENDS Integers, Sequences, FiniteSets, Bags, TLC

\* ---------------------------------------------------------------- bounds
MaxInFlight == 2          \* REST requests of the view awaiting their continuation
MaxEvents == 12           \* frames the open socket delivers
MaxNoise == 1             \* of these, frames the consumer does not keep
MaxSize == 3              \* container and frame widths and heights 1..MaxSize
MaxVertices == 3          \* vertices of a draft polygon
MaxZones == 1             \* zones the backend creates
MaxEdInFlight == 2        \* REST requests of the editor awaiting their continuation
MaxBuffered == 1          \* frames delivered to a view that also polls and stops

\* ------------------------------------------------------------- constants
EntityIds == {1, 2}       \* cameraId / lotId / busId values of the view's prop
Kinds == {"camera", "gate"}
None == "null"            \* JavaScript null / undefined
NoSrc == 0                \* img.src = ""
NoStatus == None          \* the status hook holds null
NoSub == [ent |-> 0, run |-> FALSE]        \* no poll effect: the view is unmounted
RunningPeriod == 2000
IdlePeriod == 5000
StatusValues == {"idle", "starting", "running", "stopped", "error"}
Details == {None, "rejected"}          \* e.response?.data?.detail
AxiosMessage == "Request failed"           \* e.message of an axios error
Capacity == 10            \* .slice(0, 10)
DetectionType == "live_detection"
\* "letterbox": SpaceEditor (first definition) and SeatEditor;
\* "stretch": the second SpaceEditor definition of SpaceEditor.tsx
EditorKinds == {"letterbox", "stretch"}
\* [clientWidth, clientHeight, naturalWidth, naturalHeight] of the frame <img>
Wide == [cw |-> 800, ch |-> 800, nw |-> 1920, nh |-> 1080]
Fit == [cw |-> 800, ch |-> 450, nw |-> 1920, nh |-> 1080]
Boxes ==
  {[cw |-> a, ch |-> b, nw |-> c, nh |-> d] :
      a \in 1..MaxSize, b \in 1..MaxSize, c \in 1..MaxSize, d \in 1..MaxSize}
    \cup {Wide, Fit}
ClickCoords == 0..MaxSize \cup {50, 175, 225, 400, 800}
MinPoints == 3            \* drawing.length < 3
HANDLE_RADIUS == 14       \* px hit radius
CanvasW == 100            \* rect.width of the line editor's canvas
CanvasH == 100            \* rect.height
MouseXs == {-10, 30, 80}  \* e.clientX - rect.left
MouseYs == {50, 120}      \* e.clientY - rect.top
TooFewPoints == "Minimal 3 titik untuk membentuk polygon"
LabelRequired == "Label slot wajib diisi (contoh: A1)"
FrameError == "Gagal mengambil frame dari stream. Pastikan Overhead Stream URL sudah benar."
\* values of the label input, as sequences of characters
Labels == {<<>>, <<" ">>, <<" ", "A", " ">>}
\* text frames of /ws/live: wf = JSON.parse accepts the text
Malformed == [wf |-> FALSE, camera_id |-> 0, type |-> "", n |-> 0]
Frames ==
  {[wf |-> TRUE, camera_id |-> 1, type |-> DetectionType, n |-> n] : n \in 0..1}
    \cup {[wf |-> TRUE, camera_id |-> 2, type |-> DetectionType, n |-> 0],
          [wf |-> TRUE, camera_id |-> 1, type |-> "status", n |-> 0],
          Malformed}

VARIABLES
  kind,        \* which of the five views this is
  mounted,     \* the component is mounted
  entityId,    \* the cameraId / lotId / busId prop
  status,      \* useState<...Status | null>: NoStatus or the status field of the record
  loading,     \* useState(false)
  error,       \* useState("")
  sub,         \* deps [ent, run] of the poll effect that last ran, or NoSub
  timers,      \* armed setInterval timers: Seq of [period, ent, act]
  reqs,        \* REST requests in flight: bag of request records
  img,         \* the feed <img>: [mounted, src]
  worker,      \* backend detection worker per entity
  ev,          \* the task that ran last (history, read by the properties)
  ws,                \* open WebSockets of the camera view: Seq of [ent]
  recentDetections,  \* useState<WsDetection[]>([])
  received,          \* every payload the open socket delivered (history)
  other,             \* hook state of a second monitor view of the dashboard
  editorKind,  \* which zone editor definition this is
  box,         \* the frame <img>: [cw, ch, nw, nh]
  spaces,      \* useState<ParkingSpace[]>([]) / seats: the set of [id, label, n]
  drawing,     \* useState<number[][]>([])
  label,       \* useState("")
  saving,      \* useState(false)
  editorError, \* useState("") of the editor
  edReqs,      \* REST requests of the editor in flight
  zones,       \* backend store of the zones of the lot / bus
  nextId,      \* backend id sequence of the zone store
  click,       \* display point of the last canvas click (history)
  frame,       \* the frame of the zone editor: [imgSrc, imgLoaded, loadingFrame]
  lineOpen,    \* the page renders the LineEditor
  pts,         \* useState<LinePts>(linePts): [x1, y1, x2, y2]
  draggingRef, \* useRef<"pt1" | "pt2" | null>(null)
  lineImg,     \* the frame of the line editor: [imgLoaded, imgError]
  linePts,     \* the line the page holds and passes as the linePts prop
  saved,       \* the arguments of the onSave calls (history)
  mouse        \* canvas position of the last mouse event (history)

chanVars == <<ws, recentDetections, received>>

editorVars == <<editorKind, box, spaces, drawing, label, saving, editorError, edReqs, zones, nextId, click>>

monitorVars == <<kind, mounted, entityId, status, loading, error, sub, timers, reqs, img, worker>>

lineVars == <<lineOpen, pts, draggingRef, lineImg, linePts, saved, mouse>>

vars == <<monitorVars, ev, chanVars, other, editorVars, frame, lineVars>>

\* ------------------------------------------------------ pure definitions
isRunning(s) == s \in {"running", "starting"}

Period(run) == IF run THEN RunningPeriod ELSE IdlePeriod

FeedUrl(e) == e

\* e.response?.data?.detail || e.message
ErrorText(detail) == IF detail # None /\ detail # "" THEN detail ELSE AxiosMessage

\* variant: the feed is rendered whenever a status is cached
RenderAlways(s, e, old) ==
  IF s # NoStatus THEN [mounted |-> TRUE, src |-> FeedUrl(e)]
  ELSE [mounted |-> FALSE, src |-> old.src]

\* JSX: {isRunning && <img ref={imgRef} src={feedUrl} />}
Render(s, e, old) ==
  IF isRunning(s) THEN [mounted |-> TRUE, src |-> FeedUrl(e)]
  ELSE [mounted |-> FALSE, src |-> old.src]

Deps == [ent |-> entityId, run |-> isRunning(status)]

\* act: the closure that awaits the request may still write state (the active
\* flag of a poll, the mounted instance of a command)
Req(op, e) == [op |-> op, ent |-> e, act |-> TRUE, res |-> "sent", data |-> None]

One(r) == SetToBag({r})

InFlight == BagCardinality(reqs)

Ev(op, e, act, data) == [op |-> op, act |-> act]

\* variant: the cleanup leaves the active flag set
InactiveForgotten(r) == r

\* variant: the cleanup leaves the interval armed
ClearIntervalForgotten(ts) == ts

\* cleanup of the poll effect: active = false; clearInterval(iv)
Inactive(r) == IF r.op = "poll" THEN [r EXCEPT !.act = FALSE] ELSE r

Deactivate(rs) == BagOfAll(Inactive, rs)

Dead(r) == [r EXCEPT !.act = FALSE]

ClearInterval(ts) == <<>>

\* variant: a successful stop leaves the status to the next poll
StoppedStatusKept(k, prev) == prev

\* setStatus((prev) => prev ? { ...prev, status: "stopped" } : null); LiveMonitor: setStatus(null)
StoppedStatus(k, prev) ==
  IF k = "camera" THEN NoStatus
  ELSE IF prev # NoStatus THEN "stopped" ELSE NoStatus

\* variant: the cleanup leaves the socket open
CloseForgotten(socks) == socks

\* ws.close(); wsRef.current = null
Close(socks) == <<>>

\* the WebSocket effect of LiveMonitor, deps [cameraId, isRunning]: the cleanup
\* of its previous run, then (only while running) new WebSocket(".../ws/live")
Connect(k, socks, e, run) ==
  IF k # "camera" THEN socks
  ELSE IF run THEN Append(Close(socks), [ent |-> e]) ELSE Close(socks)

\* JSON.parse(event.data) of a well-formed frame
JsonParse(f) == [camera_id |-> f.camera_id, type |-> f.type, n |-> f.n]

\* data.camera_id === cameraId && data.type === "live_detection"
Wanted(f, e) == f.wf /\ JsonParse(f).camera_id = e /\ JsonParse(f).type = DetectionType

Slice(s, k) == SubSeq(s, 1, IF Len(s) < k THEN Len(s) ELSE k)

\* variant: the buffer is never cut
PushUnbounded(data, prev) == <<data>> \o prev

\* setRecentDetections((prev) => [data, ...prev].slice(0, 10))
Push(data, prev) == Slice(<<data>> \o prev, Capacity)

\* variant: a frame that does not parse closes the socket
IgnoreCloses(socks) == <<>>

\* catch { /* Ignore parse errors */ }
Ignore(socks) == socks

Noise(fs, e) == Len(SelectSeq(fs, LAMBDA f : ~Wanted(f, e)))

\* ------------------------------------------------- coordinate arithmetic
\* JavaScript numbers, taken as exact rationals [n, d] in lowest terms
RECURSIVE GCD(_, _)
GCD(a, b) == IF b = 0 THEN a ELSE GCD(b, a % b)

Abs(a) == IF a < 0 THEN -a ELSE a

Norm(n, d) ==
  LET g == GCD(Abs(n), Abs(d))
      sg == IF d < 0 THEN -1 ELSE 1
  IN [n |-> sg * (n \div g), d |-> sg * (d \div g)]

Rat(i) == [n |-> i, d |-> 1]

RMul(a, b) ==
  LET g1 == GCD(Abs(a.n), b.d)
      g2 == GCD(Abs(b.n), a.d)
  IN Norm((a.n \div g1) * (b.n \div g2), (a.d \div g2) * (b.d \div g1))

\* a / b with b # 0
RDiv(a, b) == RMul(a, Norm(b.d, b.n))

RAdd(a, b) ==
  LET g == GCD(a.d, b.d)
  IN Norm(a.n * (b.d \div g) + b.n * (a.d \div g), (a.d \div g) * b.d)

RSub(a, b) == RAdd(a, [n |-> -b.n, d |-> b.d])

RLess(a, b) == a.n * b.d < b.n * a.d

\* a || b on numbers
OrElse(a, b) == IF a = 0 THEN b ELSE a

\* variant: the image is taken to fill its element
getImageBoundsFill(b) == [rw |-> Rat(b.cw), rh |-> Rat(b.ch), ox |-> Rat(0), oy |-> Rat(0)]

\* getImageBounds(img): the rendered rectangle of an object-fit: contain image
getImageBounds(b) ==
  LET cw == Rat(b.cw)
      ch == Rat(b.ch)
      nw == Rat(OrElse(b.nw, b.cw))
      nh == Rat(OrElse(b.nh, b.ch))
      containerAspect == RDiv(cw, ch)
      imageAspect == RDiv(nw, nh)
  IN IF RLess(containerAspect, imageAspect)
     THEN LET rh == RDiv(cw, imageAspect)
          IN [rw |-> cw, rh |-> rh, ox |-> Rat(0), oy |-> RDiv(RSub(ch, rh), Rat(2))]
     ELSE LET rw == RMul(ch, imageAspect)
          IN [rw |-> rw, rh |-> ch, ox |-> RDiv(RSub(cw, rw), Rat(2)), oy |-> Rat(0)]

\* variant: the letterbox offsets are left out of the forward transform
natToDisplayNoOffset(k, p, b) ==
  IF k = "stretch"
  THEN [x |-> RMul(p.x, RDiv(Rat(b.cw), Rat(OrElse(b.nw, b.cw)))),
        y |-> RMul(p.y, RDiv(Rat(b.ch), Rat(OrElse(b.nh, b.ch))))]
  ELSE LET g == getImageBounds(b)
       IN [x |-> RMul(RDiv(p.x, Rat(b.nw)), g.rw),
           y |-> RMul(RDiv(p.y, Rat(b.nh)), g.rh)]

\* natToDisplay(x, y, img); the second SpaceEditor definition scales by
\* clientWidth / naturalWidth and clientHeight / naturalHeight instead
natToDisplay(k, p, b) ==
  IF k = "stretch"
  THEN [x |-> RMul(p.x, RDiv(Rat(b.cw), Rat(OrElse(b.nw, b.cw)))),
        y |-> RMul(p.y, RDiv(Rat(b.ch), Rat(OrElse(b.nh, b.ch))))]
  ELSE LET g == getImageBounds(b)
       IN [x |-> RAdd(RMul(RDiv(p.x, Rat(b.nw)), g.rw), g.ox),
           y |-> RAdd(RMul(RDiv(p.y, Rat(b.nh)), g.rh), g.oy)]

\* handleCanvasClick: display coordinates to natural image coordinates
displayToNat(k, d, b) ==
  IF k = "stretch"
  THEN [x |-> RMul(d.x, RDiv(Rat(OrElse(b.nw, b.cw)), Rat(b.cw))),
        y |-> RMul(d.y, RDiv(Rat(OrElse(b.nh, b.ch)), Rat(b.ch)))]
  ELSE LET g == getImageBounds(b)
       IN [x |-> RMul(RDiv(RSub(d.x, g.ox), g.rw), Rat(b.nw)),
           y |-> RMul(RDiv(RSub(d.y, g.oy), g.rh), Rat(b.nh))]

\* natX < 0 || natY < 0 || natX > naturalWidth || natY > naturalHeight
\* (the second SpaceEditor definition has no such test)
OnBlackBar(k, n, b) ==
  /\ k # "stretch"
  /\ \/ RLess(n.x, Rat(0)) \/ RLess(n.y, Rat(0))
     \/ RLess(Rat(b.nw), n.x) \/ RLess(Rat(b.nh), n.y)

Pt(x, y) == [x |-> Rat(x), y |-> Rat(y)]

\* ------------------------------------------------------------------ Init
\* no second view is mounted
NoOther == [ent |-> 0, status |-> NoStatus, error |-> "", timers |-> <<>>, ws |-> <<>>]

NoBox == [cw |-> 0, ch |-> 0, nw |-> 0, nh |-> 0]

\* imgSrc is null: no frame has been requested
NoFrame == [imgSrc |-> FALSE, imgLoaded |-> FALSE, loadingFrame |-> FALSE]

\* the frame has been requested and has loaded
FrameLoaded == [imgSrc |-> TRUE, imgLoaded |-> TRUE, loadingFrame |-> FALSE]

Line(x1, y1, x2, y2) == [x1 |-> x1, y1 |-> y1, x2 |-> x2, y2 |-> y2]

\* p1 = (0.2, 0.5), p2 = (0.8, 0.5)
DefaultLine == Line(Norm(1, 5), Norm(1, 2), Norm(4, 5), Norm(1, 2))

\* the page does not render the line editor
LineClosed ==
  /\ lineOpen = FALSE
  /\ pts = DefaultLine
  /\ draggingRef = None
  /\ lineImg = [imgLoaded |-> FALSE, imgError |-> FALSE]
  /\ linePts = DefaultLine
  /\ saved = <<>>
  /\ mouse = [x |-> 0, y |-> 0]

\* fresh hooks of the camera view's channel
ChannelIdle ==
  /\ ws = <<>>
  /\ recentDetections = <<>>
  /\ received = <<>>

\* the page shows a monitor tab: no zone editor and no line editor is
\* mounted
EditorUnmounted ==
  /\ editorKind = "none"
  /\ box = NoBox
  /\ spaces = {}
  /\ drawing = <<>>
  /\ label = <<>>
  /\ saving = FALSE
  /\ editorError = ""
  /\ edReqs = EmptyBag
  /\ zones = {}
  /\ nextId = 1
  /\ click = Pt(0, 0)
  /\ frame = NoFrame
  /\ LineClosed

Init ==
  /\ kind \in Kinds
  /\ mounted = FALSE
  /\ entityId = 1
  /\ status = NoStatus
  /\ loading = FALSE
  /\ error = ""
  /\ sub = NoSub
  /\ timers = <<>>
  /\ reqs = EmptyBag
  /\ img = [mounted |-> FALSE, src |-> NoSrc]
  /\ worker = [e \in EntityIds |-> "idle"]
  /\ ev = Ev("init", 0, FALSE, None)
  /\ ChannelIdle
  /\ other = NoOther
  /\ EditorUnmounted

\* --------------------------------------------------------------- actions
\* the poll effect body: let active = true; check(); setInterval(check, ...)
Subscribe(rs, e) == rs (+) One(Req("poll", e))

SetInterval(ts, e, run) == Append(ts, [period |-> Period(run), ent |-> e, act |-> TRUE])

\* the page renders the view for entity e: fresh hooks, then the effects of
\* the first render (React runs them before any later render or click)
Mount(e) ==
  /\ ~mounted
  /\ InFlight < MaxInFlight
  /\ mounted' = TRUE
  /\ entityId' = e
  /\ img' = [mounted |-> FALSE, src |-> NoSrc]
  /\ reqs' = Subscribe(reqs, e)
  /\ timers' = SetInterval(timers, e, FALSE)
  /\ sub' = [ent |-> e, run |-> FALSE]
  /\ ev' = Ev("mount", e, FALSE, None)
  /\ UNCHANGED <<kind, status, loading, error, worker>>
  /\ ws' = Connect(kind, ws, e, FALSE)
  /\ recentDetections' = <<>>
  /\ UNCHANGED <<received, other, editorVars, frame, lineVars>>

\* variant: the cleanup also stops the worker
UnmountStops ==
  /\ mounted
  /\ mounted' = FALSE
  /\ img' = [mounted |-> FALSE, src |-> IF img.mounted THEN NoSrc ELSE img.src]
  /\ timers' = ClearInterval(timers)
  /\ reqs' = BagOfAll(Dead, reqs) (+) One(Dead(Req("stop", entityId)))
  /\ sub' = NoSub
  /\ status' = NoStatus
  /\ loading' = FALSE
  /\ error' = ""
  /\ ev' = Ev("unmount", entityId, FALSE, None)
  /\ ws' = Close(ws)
  /\ recentDetections' = <<>>
  /\ UNCHANGED <<kind, entityId, worker, received, other, editorVars, frame, lineVars>>

\* the view is removed: both effect cleanups run, in declaration order
Unmount ==
  /\ mounted
  /\ mounted' = FALSE
  /\ img' = [mounted |-> FALSE, src |-> IF img.mounted THEN NoSrc ELSE img.src]
  /\ timers' = ClearInterval(timers)
  /\ reqs' = BagOfAll(Dead, reqs)
  /\ sub' = NoSub
  /\ status' = NoStatus
  /\ loading' = FALSE
  /\ error' = ""
  /\ ev' = Ev("unmount", entityId, FALSE, None)
  /\ UNCHANGED <<kind, entityId, worker>>
  /\ ws' = Close(ws)
  /\ recentDetections' = <<>>
  /\ UNCHANGED <<received, other, editorVars, frame, lineVars>>

\* variant: the view resets its detections when the prop changes
SwitchEntityResets(e) ==
  /\ mounted
  /\ e # entityId
  /\ entityId' = e
  /\ img' = Render(status, e, img)
  /\ recentDetections' = <<>>
  /\ ev' = Ev("switch", e, FALSE, None)
  /\ UNCHANGED <<kind, mounted, status, loading, error, sub, timers, reqs, worker>>
  /\ UNCHANGED <<ws, received, other, editorVars, frame, lineVars>>

\* the parent passes another cameraId / lotId / busId to the mounted view
SwitchEntity(e) ==
  /\ mounted
  /\ e # entityId
  /\ entityId' = e
  /\ img' = Render(status, e, img)
  /\ ev' = Ev("switch", e, FALSE, None)
  /\ UNCHANGED <<kind, mounted, status, loading, error, sub, timers, reqs, worker>>
  /\ UNCHANGED <<chanVars, other, editorVars, frame, lineVars>>

\* the poll effect re-runs because [entityId, isRunning] changed: the cleanup
\* of the previous run, then check() and setInterval
FlushEffects ==
  /\ mounted
  /\ sub # Deps
  /\ InFlight < MaxInFlight
  /\ reqs' = Subscribe(Deactivate(reqs), entityId)
  /\ timers' = SetInterval(ClearInterval(timers), entityId, isRunning(status))
  /\ sub' = Deps
  /\ ev' = Ev(IF sub.ent # entityId THEN "effectsEntity" ELSE "effectsClass", entityId, TRUE, None)
  /\ UNCHANGED <<kind, mounted, entityId, status, loading, error, img, worker>>
  /\ ws' = Connect(kind, ws, entityId, isRunning(status))
  /\ UNCHANGED <<recentDetections, received, other, editorVars, frame, lineVars>>

\* an armed interval fires: check() up to its await
TimerTick(i) ==
  /\ i \in 1..Len(timers)
  /\ InFlight < MaxInFlight
  /\ reqs' = IF timers[i].act THEN reqs (+) One(Req("poll", timers[i].ent)) ELSE reqs
  /\ ev' = Ev("tick", timers[i].ent, timers[i].act, None)
  /\ UNCHANGED <<kind, mounted, entityId, status, loading, error, sub, timers, img, worker>>
  /\ UNCHANGED <<chanVars, other, editorVars, frame, lineVars>>

\* variant: a failed poll keeps the cached status
PollResultKeepsStale(r, failed) == IF failed THEN status ELSE r.data

\* try { res = await get...Status(id); setStatus(res.data) } catch { setStatus(null) }
PollResult(r, failed) == IF failed THEN NoStatus ELSE r.data

\* check() after its await: if (active) setStatus(res.data), catch: setStatus(null)
CheckSettle(r, failed) ==
  /\ BagIn(r, reqs)
  /\ r.op = "poll"
  /\ ~failed => r.res = "ok"
  /\ LET new == PollResult(r, failed)
     IN /\ status' = IF r.act THEN new ELSE status
        /\ img' = IF r.act THEN Render(new, entityId, img) ELSE img
        /\ ev' = Ev(IF failed THEN "pollFail" ELSE "pollOk", r.ent, r.act, r.data)
  /\ reqs' = reqs (-) One(r)
  /\ UNCHANGED <<kind, mounted, entityId, loading, error, sub, timers, worker>>
  /\ UNCHANGED <<chanVars, other, editorVars, frame, lineVars>>

\* variant: the start click sets the status to starting before the response
handleStartOptimistic ==
  /\ mounted
  /\ ~isRunning(status)
  /\ ~loading
  /\ InFlight < MaxInFlight
  /\ loading' = TRUE
  /\ error' = ""
  /\ status' = "starting"
  /\ img' = [mounted |-> TRUE, src |-> FeedUrl(entityId)]
  /\ reqs' = reqs (+) One(Req("start", entityId))
  /\ ev' = Ev("startClick", entityId, TRUE, None)
  /\ UNCHANGED <<kind, mounted, entityId, sub, timers, worker>>
  /\ UNCHANGED <<chanVars, other, editorVars, frame, lineVars>>

\* click on the start button: handleStart up to its first await
handleStart ==
  /\ mounted
  /\ ~isRunning(status)
  /\ ~loading
  /\ InFlight < MaxInFlight
  /\ loading' = TRUE
  /\ error' = ""
  /\ reqs' = reqs (+) One(Req("start", entityId))
  /\ ev' = Ev("startClick", entityId, TRUE, None)
  /\ UNCHANGED <<kind, mounted, entityId, status, sub, timers, img, worker>>
  /\ UNCHANGED <<chanVars, other, editorVars, frame, lineVars>>

\* variant: the catch block swallows the error
CatchSilent(r, detail) ==
  /\ error' = error
  /\ loading' = IF r.act THEN FALSE ELSE loading
  /\ other' = other

\* variant: the message is kept in a module-level store that every view shows
CatchShared(r, detail) ==
  /\ error' = IF r.act THEN ErrorText(detail) ELSE error
  /\ loading' = IF r.act THEN FALSE ELSE loading
  /\ other' = [other EXCEPT !.error = ErrorText(detail)]

\* catch (e) { setError(e.response?.data?.detail || e.message) } setLoading(false)
Catch(r, detail) ==
  /\ error' = IF r.act THEN ErrorText(detail) ELSE error
  /\ loading' = IF r.act THEN FALSE ELSE loading
  /\ other' = other

\* handleStart after await start...(): the status fetch, or the catch block
StartSettle(r, failed, detail) ==
  /\ BagIn(r, reqs)
  /\ r.op = "start"
  /\ ~failed => r.res = "ok"
  /\ IF failed
     THEN /\ reqs' = reqs (-) One(r)
          /\ Catch(r, detail)
          /\ ev' = Ev("startFail", r.ent, r.act, None)
     ELSE /\ reqs' = (reqs (-) One(r)) (+) One([Req("fetch", r.ent) EXCEPT !.act = r.act])
          /\ ev' = Ev("startOk", r.ent, r.act, None)
          /\ UNCHANGED <<error, loading, other>>
  /\ UNCHANGED <<kind, mounted, entityId, status, sub, timers, img, worker>>
  /\ UNCHANGED <<chanVars, editorVars, frame, lineVars>>

\* handleStart after await get...Status(): setStatus(res.data), or the catch block
FetchSettle(r, failed, detail) ==
  /\ BagIn(r, reqs)
  /\ r.op = "fetch"
  /\ ~failed => r.res = "ok"
  /\ IF failed
     THEN /\ Catch(r, detail)
          /\ ev' = Ev("fetchFail", r.ent, r.act, None)
          /\ UNCHANGED <<status, img>>
     ELSE /\ status' = IF r.act THEN r.data ELSE status
          /\ img' = IF r.act THEN Render(r.data, entityId, img) ELSE img
          /\ loading' = IF r.act THEN FALSE ELSE loading
          /\ ev' = Ev("fetchOk", r.ent, r.act, None)
          /\ UNCHANGED <<error, other>>
  /\ reqs' = reqs (-) One(r)
  /\ UNCHANGED <<kind, mounted, entityId, sub, timers, worker>>
  /\ UNCHANGED <<chanVars, editorVars, frame, lineVars>>

\* click on the stop button: handleStop up to its await
handleStop ==
  /\ mounted
  /\ isRunning(status)
  /\ ~loading
  /\ InFlight < MaxInFlight
  /\ loading' = TRUE
  /\ reqs' = reqs (+) One(Req("stop", entityId))
  /\ ev' = Ev("stopClick", entityId, TRUE, None)
  /\ UNCHANGED <<kind, mounted, entityId, status, error, sub, timers, img, worker>>
  /\ UNCHANGED <<chanVars, other, editorVars, frame, lineVars>>

\* handleStop after await stop...(): the stopped status, or the catch block
StopSettle(r, failed, detail) ==
  /\ BagIn(r, reqs)
  /\ r.op = "stop"
  /\ ~failed => r.res = "ok"
  /\ IF failed
     THEN /\ Catch(r, detail)
          /\ ev' = Ev("stopFail", r.ent, r.act, None)
          /\ UNCHANGED <<status, img>>
     ELSE /\ status' = IF r.act THEN StoppedStatus(kind, status) ELSE status
          /\ img' = IF r.act THEN Render(StoppedStatus(kind, status), entityId, img) ELSE img
          /\ loading' = IF r.act THEN FALSE ELSE loading
          /\ ev' = Ev("stopOk", r.ent, r.act, None)
          /\ UNCHANGED <<error, other>>
  /\ reqs' = reqs (-) One(r)
  /\ UNCHANGED <<kind, mounted, entityId, sub, timers, worker>>
  /\ recentDetections' = IF ~failed /\ r.act /\ kind = "camera" THEN <<>> ELSE recentDetections
  /\ UNCHANGED <<ws, received, editorVars, frame, lineVars>>

\* ws.onmessage of socket i: the server pushes frame f
onmessage(i, f) ==
  /\ i \in 1..Len(ws)
  /\ Len(received) < MaxEvents
  /\ Wanted(f, ws[i].ent) \/ Noise(received, ws[i].ent) < MaxNoise
  /\ received' = Append(received, f)
  /\ recentDetections' =
        IF Wanted(f, ws[i].ent) THEN Push(JsonParse(f), recentDetections) ELSE recentDetections
  /\ ws' = IF f.wf THEN ws ELSE Ignore(ws)
  /\ ev' = Ev("message", ws[i].ent, f.wf, None)
  /\ UNCHANGED <<monitorVars, other, editorVars, frame, lineVars>>

\* hook state of a camera view on entity e whose status is w, after its effects
OtherView(e, w) ==
  [ent |-> e, status |-> w, error |-> "",
   timers |-> SetInterval(<<>>, e, isRunning(w)),
   ws |-> Connect("camera", <<>>, e, isRunning(w))]

\* the second view's poll settles and its effects run
OtherPolls(failed) ==
  /\ other # NoOther
  /\ LET new == PollResult([data |-> worker[other.ent]], failed)
     IN other' = [OtherView(other.ent, new) EXCEPT !.error = other.error]
  /\ ev' = Ev(IF failed THEN "otherPollFail" ELSE "otherPollOk", other.ent, FALSE, None)
  /\ UNCHANGED <<monitorVars, chanVars, editorVars, frame, lineVars>>

\* ----------------------------------------------------------- zone editor
\* clicks land on the canvas, which covers the <img> element
Clicks(b) == {[x |-> Rat(x), y |-> Rat(y)] : x \in {c \in ClickCoords : c <= b.cw},
                                            y \in {c \in ClickCoords : c <= b.ch}}

\* {imgLoaded && <canvas onClick={handleCanvasClick} />}
ZoneCanvasRendered == editorKind # "none" /\ frame.imgLoaded

\* handleCanvasClick(e) with e.clientX - rect.left, e.clientY - rect.top = d
handleCanvasClick(d) ==
  /\ ZoneCanvasRendered
  /\ d \in Clicks(box)
  /\ LET nat == displayToNat(editorKind, d, box)
     IN drawing' = IF OnBlackBar(editorKind, nat, box) THEN drawing ELSE Append(drawing, nat)
  /\ click' = d
  /\ ev' = Ev("click", 0, TRUE, None)
  /\ UNCHANGED <<editorKind, box, spaces, label, saving, editorError, edReqs, zones, nextId>>
  /\ UNCHANGED <<monitorVars, chanVars, other, frame, lineVars>>

\* String.prototype.trim
RECURSIVE TrimStart(_)
TrimStart(l) == IF l # <<>> /\ Head(l) = " " THEN TrimStart(Tail(l)) ELSE l

RECURSIVE TrimEnd(_)
TrimEnd(l) == IF l # <<>> /\ l[Len(l)] = " " THEN TrimEnd(SubSeq(l, 1, Len(l) - 1)) ELSE l

\* variant: the label is used as typed
TrimNone(l) == l

Trim(l) == TrimEnd(TrimStart(l))

\* variant: only the number of points is validated
ValidationErrorPointsOnly(d, l) == IF Len(d) < MinPoints THEN TooFewPoints ELSE ""

\* the two early returns of saveSpace / saveSeat
ValidationError(d, l) ==
  IF Len(d) < MinPoints THEN TooFewPoints
  ELSE IF Trim(l) = <<>> THEN LabelRequired
  ELSE ""

\* from: the caller of loadSpaces (the mount effect, saveSpace, handleDelete)
EdReq(op, l, poly, id, from) ==
  [op |-> op, label |-> l, polygon |-> poly, id |-> id, from |-> from,
   res |-> "sent", data |-> {}]

EdInFlight == BagCardinality(edReqs)

\* onChange of the label input, rendered while drawing.length > 0
setLabel(l) ==
  /\ editorKind # "none"
  /\ drawing # <<>>
  /\ l \in Labels
  /\ l # label
  /\ label' = l
  /\ ev' = Ev("label", 0, TRUE, None)
  /\ UNCHANGED <<editorKind, box, spaces, drawing, saving, editorError, edReqs, zones, nextId, click>>
  /\ UNCHANGED <<monitorVars, chanVars, other, frame, lineVars>>

\* undoPoint: setDrawing((prev) => prev.slice(0, -1))
undoPoint ==
  /\ editorKind # "none"
  /\ drawing' = SubSeq(drawing, 1, Len(drawing) - 1)
  /\ ev' = Ev("undo", 0, TRUE, None)
  /\ UNCHANGED <<editorKind, box, spaces, label, saving, editorError, edReqs, zones, nextId, click>>
  /\ UNCHANGED <<monitorVars, chanVars, other, frame, lineVars>>

\* saveSpace / saveSeat up to its first await
saveSpace ==
  /\ editorKind # "none"
  /\ EdInFlight < MaxEdInFlight
  /\ IF ValidationError(drawing, label) # ""
     THEN /\ editorError' = ValidationError(drawing, label)
          /\ ev' = Ev("saveInvalid", 0, TRUE, None)
          /\ UNCHANGED <<saving, edReqs>>
     ELSE /\ saving' = TRUE
          /\ editorError' = ""
          /\ edReqs' = edReqs (+) One(EdReq("create", Trim(label), drawing, 0, "save"))
          /\ ev' = Ev("saveClick", 0, TRUE, None)
  /\ UNCHANGED <<editorKind, box, spaces, drawing, label, zones, nextId, click>>
  /\ UNCHANGED <<monitorVars, chanVars, other, frame, lineVars>>

\* variant: the save button is always enabled
SaveEnabledAlways(d, l, s) == FALSE

\* disabled={saving || drawing.length < 3 || !label.trim()}
SaveDisabled(d, l, s) == s \/ Len(d) < MinPoints \/ Trim(l) = <<>>

\* a click on the save button, rendered while drawing.length > 0: a disabled
\* button runs no handler
ClickSave ==
  /\ editorKind # "none"
  /\ drawing # <<>>
  /\ IF SaveDisabled(drawing, label, saving)
     THEN /\ ev' = Ev("saveDisabled", 0, FALSE, None)
          /\ UNCHANGED <<monitorVars, chanVars, other, editorVars, frame, lineVars>>
     ELSE saveSpace

\* variant: a draft that was changed during the call is kept
CreateSettleKeepsChanged(r, failed, detail) ==
  /\ BagIn(r, edReqs)
  /\ r.op = "create"
  /\ ~failed => r.res = "ok"
  /\ IF failed
     THEN /\ editorError' = ErrorText(detail)
          /\ saving' = FALSE
          /\ edReqs' = edReqs (-) One(r)
          /\ ev' = Ev("createFail", 0, TRUE, None)
          /\ UNCHANGED <<drawing, label>>
     ELSE /\ drawing' = IF drawing = r.polygon THEN <<>> ELSE drawing
          /\ label' = IF drawing = r.polygon THEN <<>> ELSE label
          /\ edReqs' = (edReqs (-) One(r)) (+) One(EdReq("list", <<>>, <<>>, 0, "save"))
          /\ ev' = Ev("createOk", 0, TRUE, None)
          /\ UNCHANGED <<editorError, saving>>
  /\ UNCHANGED <<editorKind, box, spaces, zones, nextId, click>>
  /\ UNCHANGED <<monitorVars, chanVars, other, frame, lineVars>>

\* saveSpace after await create...(): clear the draft and loadSpaces(), or
\* the catch block and setSaving(false)
CreateSettle(r, failed, detail) ==
  /\ BagIn(r, edReqs)
  /\ r.op = "create"
  /\ ~failed => r.res = "ok"
  /\ IF failed
     THEN /\ editorError' = ErrorText(detail)
          /\ saving' = FALSE
          /\ edReqs' = edReqs (-) One(r)
          /\ ev' = Ev("createFail", 0, TRUE, None)
          /\ UNCHANGED <<drawing, label>>
     ELSE /\ drawing' = <<>>
          /\ label' = <<>>
          /\ edReqs' = (edReqs (-) One(r)) (+) One(EdReq("list", <<>>, <<>>, 0, "save"))
          /\ ev' = Ev("createOk", 0, TRUE, None)
          /\ UNCHANGED <<editorError, saving>>
  /\ UNCHANGED <<editorKind, box, spaces, zones, nextId, click>>
  /\ UNCHANGED <<monitorVars, chanVars, other, frame, lineVars>>

\* loadSpaces after its await: setSpaces(res.data), or the empty catch; then
\* the rest of the caller (saveSpace: setSaving(false))
ListSettle(r, failed) ==
  /\ BagIn(r, edReqs)
  /\ r.op = "list"
  /\ ~failed => r.res = "ok"
  /\ spaces' = IF failed THEN spaces ELSE r.data
  /\ saving' = IF r.from = "save" THEN FALSE ELSE saving
  /\ edReqs' = edReqs (-) One(r)
  /\ ev' = Ev(IF failed THEN "listFail" ELSE "listOk", 0, TRUE, None)
  /\ UNCHANGED <<editorKind, box, drawing, label, editorError, zones, nextId, click>>
  /\ UNCHANGED <<monitorVars, chanVars, other, frame, lineVars>>

\* variant: the zone is removed from the local list at the click
handleDeleteOptimistic(id) ==
  /\ editorKind # "none"
  /\ \E z \in spaces : z.id = id
  /\ EdInFlight < MaxEdInFlight
  /\ spaces' = {z \in spaces : z.id # id}
  /\ edReqs' = edReqs (+) One(EdReq("delete", <<>>, <<>>, id, "delete"))
  /\ ev' = Ev("deleteClick", 0, TRUE, None)
  /\ UNCHANGED <<editorKind, box, drawing, label, saving, editorError, zones, nextId, click>>
  /\ UNCHANGED <<monitorVars, chanVars, other, frame, lineVars>>

\* handleDelete(spaceId) up to its first await
handleDelete(id) ==
  /\ editorKind # "none"
  /\ \E z \in spaces : z.id = id
  /\ EdInFlight < MaxEdInFlight
  /\ edReqs' = edReqs (+) One(EdReq("delete", <<>>, <<>>, id, "delete"))
  /\ ev' = Ev("deleteClick", 0, TRUE, None)
  /\ UNCHANGED <<editorKind, box, spaces, drawing, label, saving, editorError, zones, nextId, click>>
  /\ UNCHANGED <<monitorVars, chanVars, other, frame, lineVars>>

\* handleDelete after await delete...(): loadSpaces(), or the empty catch
DeleteSettle(r, failed) ==
  /\ BagIn(r, edReqs)
  /\ r.op = "delete"
  /\ ~failed => r.res = "ok"
  /\ edReqs' = IF failed THEN edReqs (-) One(r)
               ELSE (edReqs (-) One(r)) (+) One(EdReq("list", <<>>, <<>>, 0, "delete"))
  /\ ev' = Ev(IF failed THEN "deleteFail" ELSE "deleteOk", 0, TRUE, None)
  /\ UNCHANGED <<editorKind, box, spaces, drawing, label, saving, editorError, zones, nextId, click>>
  /\ UNCHANGED <<monitorVars, chanVars, other, frame, lineVars>>

\* the backend handles a request of the editor: it creates the zone, lists
\* the zones or deletes the zone; it rejects a zone beyond MaxZones and the
\* deletion of a zone it does not hold
ZoneReply(r) ==
  /\ BagIn(r, edReqs)
  /\ r.res = "sent"
  /\ LET ok == /\ r.op = "create" => nextId <= MaxZones
               /\ r.op = "delete" => \E z \in zones : z.id = r.id
     IN /\ zones' = IF ~ok THEN zones
                    ELSE IF r.op = "create"
                         THEN zones \cup {[id |-> nextId, label |-> r.label, n |-> Len(r.polygon)]}
                    ELSE IF r.op = "delete" THEN {z \in zones : z.id # r.id}
                    ELSE zones
        /\ nextId' = IF ok /\ r.op = "create" THEN nextId + 1 ELSE nextId
        /\ edReqs' = (edReqs (-) One(r)) (+)
              One([r EXCEPT !.res = IF ok THEN "ok" ELSE "rejected",
                            !.data = IF ok /\ r.op = "list" THEN zones ELSE {}])
  /\ ev' = Ev("env", 0, FALSE, None)
  /\ UNCHANGED <<editorKind, box, spaces, drawing, label, saving, editorError, click>>
  /\ UNCHANGED <<monitorVars, chanVars, other, frame, lineVars>>

\* cancelDrawing: setDrawing([]); setLabel("")
cancelDrawing ==
  /\ editorKind # "none"
  /\ drawing' = <<>>
  /\ label' = <<>>
  /\ ev' = Ev("cancel", 0, TRUE, None)
  /\ UNCHANGED <<editorKind, box, spaces, saving, editorError, edReqs, zones, nextId, click>>
  /\ UNCHANGED <<monitorVars, chanVars, other, frame, lineVars>>

\* ------------------------------------------------ backend (REST boundary)
WorkerAfter(op, w) ==
  IF op = "start" THEN (IF w \in {"starting", "running"} THEN w ELSE "starting")
  ELSE IF op = "stop" THEN (IF w \in {"starting", "running"} THEN "stopped" ELSE w)
  ELSE w

\* the backend handles request r and answers it
BackendReply(r) ==
  /\ BagIn(r, reqs)
  /\ r.res = "sent"
  /\ LET w == WorkerAfter(r.op, worker[r.ent])
     IN /\ reqs' = (reqs (-) One(r)) (+) One([r EXCEPT !.res = "ok",
                       !.data = IF r.op \in {"poll", "fetch"} THEN worker[r.ent] ELSE None])
        /\ worker' = [worker EXCEPT ![r.ent] = w]
        /\ ev' = Ev("env", r.ent, FALSE, None)
  /\ UNCHANGED <<kind, mounted, entityId, status, loading, error, sub, timers, img>>
  /\ UNCHANGED <<chanVars, other, editorVars, frame, lineVars>>

\* the worker's own lifecycle
WorkerStep(e) ==
  /\ worker[e] \in {"starting", "running"}
  /\ \E w \in StatusValues :
        /\ \/ worker[e] = "starting" /\ w \in {"running", "error"}
           \/ worker[e] = "running" /\ w = "error"
        /\ worker' = [worker EXCEPT ![e] = w]
  /\ ev' = Ev("env", e, FALSE, None)
  /\ UNCHANGED <<kind, mounted, entityId, status, loading, error, sub, timers, reqs, img>>
  /\ UNCHANGED <<chanVars, other, editorVars, frame, lineVars>>

\* a view that stays on one entity, with its start and stop commands
Next ==
  \/ Mount(entityId)
  \/ Unmount
  \/ FlushEffects
  \/ \E i \in 1..Len(timers) : TimerTick(i)
  \/ \E r \in BagToSet(reqs), f \in BOOLEAN : CheckSettle(r, f)
  \/ handleStart
  \/ \E r \in BagToSet(reqs), f \in BOOLEAN, d \in Details : StartSettle(r, f, d)
  \/ \E r \in BagToSet(reqs), f \in BOOLEAN, d \in Details : FetchSettle(r, f, d)
  \/ handleStop
  \/ \E r \in BagToSet(reqs), f \in BOOLEAN, d \in Details : StopSettle(r, f, d)
  \/ \E r \in BagToSet(reqs) : BackendReply(r)
  \/ \E e \in EntityIds : WorkerStep(e)

Spec == Init /\ [][Next]_vars

\* a view whose entity prop changes, polling workers that other sessions left
\* idle or running (a worker outlives the view that started it)
InitPoller ==
  /\ kind \in Kinds
  /\ mounted = FALSE
  /\ entityId = 1
  /\ status = NoStatus
  /\ loading = FALSE
  /\ error = ""
  /\ sub = NoSub
  /\ timers = <<>>
  /\ reqs = EmptyBag
  /\ img = [mounted |-> FALSE, src |-> NoSrc]
  /\ worker \in [EntityIds -> {"idle", "running"}]
  /\ ev = Ev("init", 0, FALSE, None)
  /\ ChannelIdle
  /\ other = NoOther
  /\ EditorUnmounted

NextPoller ==
  \/ \E e \in EntityIds : Mount(e)
  \/ Unmount
  \/ \E e \in EntityIds : SwitchEntity(e)
  \/ FlushEffects
  \/ \E i \in 1..Len(timers) : TimerTick(i)
  \/ \E r \in BagToSet(reqs), f \in BOOLEAN : CheckSettle(r, f)
  \/ \E r \in BagToSet(reqs) : BackendReply(r)
  \/ \E e \in EntityIds : WorkerStep(e)

SpecPoller == InitPoller /\ [][NextPoller]_vars

\* a view whose entity prop changes while its start command is under way
NextSwitch ==
  \/ \E e \in EntityIds : Mount(e)
  \/ \E e \in EntityIds : SwitchEntity(e)
  \/ FlushEffects
  \/ \E i \in 1..Len(timers) : TimerTick(i)
  \/ \E r \in BagToSet(reqs), f \in BOOLEAN : CheckSettle(r, f)
  \/ handleStart
  \/ \E r \in BagToSet(reqs), f \in BOOLEAN, d \in Details : StartSettle(r, f, d)
  \/ \E r \in BagToSet(reqs), f \in BOOLEAN, d \in Details : FetchSettle(r, f, d)
  \/ \E r \in BagToSet(reqs) : BackendReply(r)

SpecSwitch == InitPoller /\ [][NextSwitch]_vars

\* an armed interval keeps firing, the backend answers, and the continuation
\* of an answered request runs
FairPoller ==
  /\ WF_vars(\E i \in 1..Len(timers) : TimerTick(i))
  /\ WF_vars(\E r \in BagToSet(reqs) : BackendReply(r))
  /\ WF_vars(\E r \in BagToSet(reqs), f \in BOOLEAN : CheckSettle(r, f))

FairSpecPoller == SpecPoller /\ FairPoller

\* two views of the dashboard on one backend: a parking view on entity 1 with
\* its commands, and a camera view on entity 2 (each page mounts one monitor
\* view at a time, so the second is the view of another page or window)
InitTwo ==
  /\ kind = "gate"
  /\ mounted = FALSE
  /\ entityId = 1
  /\ status = NoStatus
  /\ loading = FALSE
  /\ error = ""
  /\ sub = NoSub
  /\ timers = <<>>
  /\ reqs = EmptyBag
  /\ img = [mounted |-> FALSE, src |-> NoSrc]
  /\ \E w \in {"idle", "running"} :
        /\ worker = [e \in EntityIds |-> IF e = 2 THEN w ELSE "idle"]
        /\ other = OtherView(2, w)
  /\ ev = Ev("init", 0, FALSE, None)
  /\ ChannelIdle
  /\ EditorUnmounted

NextTwo ==
  \/ Mount(entityId)
  \/ Unmount
  \/ FlushEffects
  \/ \E i \in 1..Len(timers) : TimerTick(i)
  \/ \E r \in BagToSet(reqs), f \in BOOLEAN : CheckSettle(r, f)
  \/ handleStart
  \/ \E r \in BagToSet(reqs), f \in BOOLEAN, d \in Details : StartSettle(r, f, d)
  \/ \E r \in BagToSet(reqs), f \in BOOLEAN, d \in Details : FetchSettle(r, f, d)
  \/ handleStop
  \/ \E r \in BagToSet(reqs), f \in BOOLEAN, d \in Details : StopSettle(r, f, d)
  \/ \E r \in BagToSet(reqs) : BackendReply(r)
  \/ \E e \in EntityIds : WorkerStep(e)
  \/ \E f \in BOOLEAN : OtherPolls(f)

SpecTwo == InitTwo /\ [][NextTwo]_vars

\* the page shows an editor tab: no monitor view is mounted
MonitorUnmounted ==
  /\ kind = "gate"
  /\ mounted = FALSE
  /\ entityId = 1
  /\ status = NoStatus
  /\ loading = FALSE
  /\ error = ""
  /\ sub = NoSub
  /\ timers = <<>>
  /\ reqs = EmptyBag
  /\ img = [mounted |-> FALSE, src |-> NoSrc]
  /\ worker = [e \in EntityIds |-> "idle"]
  /\ ChannelIdle
  /\ other = NoOther

\* an editor with a loaded frame of any size and an empty draft
InitTransform ==
  /\ MonitorUnmounted
  /\ LineClosed
  /\ frame = FrameLoaded
  /\ editorKind \in EditorKinds
  /\ box \in Boxes
  /\ spaces = {}
  /\ drawing = <<>>
  /\ label = <<>>
  /\ saving = FALSE
  /\ editorError = ""
  /\ edReqs = EmptyBag
  /\ zones = {}
  /\ nextId = 1
  /\ click = Pt(0, 0)
  /\ ev = Ev("init", 0, FALSE, None)

EditorClicks == {Pt(400, 175), Pt(400, 225)}

\* a mounted editor with a loaded frame: the mount effect has called
\* loadSpaces(); the lot has no zone yet
InitEditor ==
  /\ MonitorUnmounted
  /\ LineClosed
  /\ frame = FrameLoaded
  /\ editorKind = "letterbox"
  /\ box = Wide
  /\ spaces = {}
  /\ drawing = <<>>
  /\ label = <<>>
  /\ saving = FALSE
  /\ editorError = ""
  /\ edReqs = One(EdReq("list", <<>>, <<>>, 0, "mount"))
  /\ zones = {}
  /\ nextId = 1
  /\ click = Pt(0, 0)
  /\ ev = Ev("init", 0, FALSE, None)

NextEditor ==
  \/ \E d \in EditorClicks : Len(drawing) < MaxVertices /\ handleCanvasClick(d)
  \/ \E l \in Labels : setLabel(l)
  \/ drawing # <<>> /\ undoPoint
  \/ drawing # <<>> /\ cancelDrawing
  \/ ClickSave
  \/ \E r \in BagToSet(edReqs), f \in BOOLEAN, d \in Details : CreateSettle(r, f, d)
  \/ \E r \in BagToSet(edReqs), f \in BOOLEAN : ListSettle(r, f)
  \/ \E z \in spaces : handleDelete(z.id)
  \/ \E r \in BagToSet(edReqs), f \in BOOLEAN : DeleteSettle(r, f)
  \/ \E r \in BagToSet(edReqs) : ZoneReply(r)

SpecEditor == InitEditor /\ [][NextEditor]_vars

\* loadFrame, with an overhead stream URL configured; its button is
\* disabled while loadingFrame
loadFrame ==
  /\ editorKind # "none"
  /\ ~frame.loadingFrame
  /\ frame' = [imgSrc |-> TRUE, imgLoaded |-> FALSE, loadingFrame |-> TRUE]
  /\ editorError' = ""
  /\ ev' = Ev("loadFrame", 0, TRUE, None)
  /\ UNCHANGED <<editorKind, box, spaces, drawing, label, saving, edReqs, zones, nextId, click>>
  /\ UNCHANGED <<monitorVars, chanVars, other, lineVars>>

\* onLoad of the frame <img>
handleImgLoad ==
  /\ editorKind # "none"
  /\ frame.loadingFrame
  /\ frame' = [frame EXCEPT !.imgLoaded = TRUE, !.loadingFrame = FALSE]
  /\ ev' = Ev("imgLoad", 0, TRUE, None)
  /\ UNCHANGED <<monitorVars, chanVars, other, editorVars, lineVars>>

\* onError of the frame <img>
handleImgError ==
  /\ editorKind # "none"
  /\ frame.loadingFrame
  /\ frame' = [frame EXCEPT !.loadingFrame = FALSE]
  /\ editorError' = FrameError
  /\ ev' = Ev("imgError", 0, TRUE, None)
  /\ UNCHANGED <<editorKind, box, spaces, drawing, label, saving, edReqs, zones, nextId, click>>
  /\ UNCHANGED <<monitorVars, chanVars, other, lineVars>>

\* a mounted editor whose zone list has loaded; no frame has been requested
InitFrame ==
  /\ MonitorUnmounted
  /\ LineClosed
  /\ frame = NoFrame
  /\ editorKind \in EditorKinds
  /\ box = Wide
  /\ spaces = {}
  /\ drawing = <<>>
  /\ label = <<>>
  /\ saving = FALSE
  /\ editorError = ""
  /\ edReqs = EmptyBag
  /\ zones = {}
  /\ nextId = 1
  /\ click = Pt(0, 0)
  /\ ev = Ev("init", 0, FALSE, None)

NextFrame ==
  \/ loadFrame
  \/ handleImgLoad
  \/ handleImgError
  \/ \E d \in EditorClicks : Len(drawing) < MaxVertices /\ handleCanvasClick(d)
  \/ drawing # <<>> /\ undoPoint
  \/ drawing # <<>> /\ cancelDrawing

SpecFrame == InitFrame /\ [][NextFrame]_vars

\* ------------------------------------------------------------ line editor
\* Math.min(a, b) / Math.max(a, b)
RMin(a, b) == IF RLess(b, a) THEN b ELSE a

RMax(a, b) == IF RLess(a, b) THEN b ELSE a

\* variant: the quotient is returned as it is
toNormUnclamped(m) == [x |-> Norm(m.x, CanvasW), y |-> Norm(m.y, CanvasH)]

\* toNorm(e) with e.clientX - rect.left, e.clientY - rect.top = m
toNorm(m) ==
  [x |-> RMin(Rat(1), RMax(Rat(0), Norm(m.x, CanvasW))),
   y |-> RMin(Rat(1), RMax(Rat(0), Norm(m.y, CanvasH)))]

\* the frame position toNorm gives for the display point d on a canvas of
\* b.cw x b.ch pixels over a frame of b.nw x b.nh pixels
lineToNat(d, b) ==
  [x |-> RMul(RMin(Rat(1), RMax(Rat(0), RDiv(d.x, Rat(b.cw)))), Rat(b.nw)),
   y |-> RMul(RMin(Rat(1), RMax(Rat(0), RDiv(d.y, Rat(b.ch)))), Rat(b.nh))]

\* Math.hypot(mx - x * w, my - y * h) < HANDLE_RADIUS
Near(m, x, y) ==
  LET ax == RSub(Rat(m.x), RMul(x, Rat(CanvasW)))
      ay == RSub(Rat(m.y), RMul(y, Rat(CanvasH)))
  IN RLess(RAdd(RMul(ax, ax), RMul(ay, ay)), Rat(HANDLE_RADIUS * HANDLE_RADIUS))

\* variant: pt2 is tested first
getHitSecondFirst(m, p) ==
  IF Near(m, p.x2, p.y2) THEN "pt2"
  ELSE IF Near(m, p.x1, p.y1) THEN "pt1"
  ELSE None

getHit(m, p) ==
  IF Near(m, p.x1, p.y1) THEN "pt1"
  ELSE IF Near(m, p.x2, p.y2) THEN "pt2"
  ELSE None

\* variant: only the x coordinates are exchanged
SwapXOnly(p) == Line(p.x2, p.y1, p.x1, p.y2)

\* handleSwap: p => ({ x1: p.x2, y1: p.y2, x2: p.x1, y2: p.y1 })
Swap(p) == Line(p.x2, p.y2, p.x1, p.y1)

\* {(imgLoaded || imgError) && <canvas ... />}
CanvasRendered == lineOpen /\ (lineImg.imgLoaded \/ lineImg.imgError)

\* the page renders the editor with the line it holds: useState(linePts)
OpenLine ==
  /\ ~lineOpen
  /\ lineOpen' = TRUE
  /\ pts' = linePts
  /\ draggingRef' = None
  /\ lineImg' = [imgLoaded |-> FALSE, imgError |-> FALSE]
  /\ ev' = Ev("lineOpen", 0, TRUE, None)
  /\ UNCHANGED <<linePts, saved, mouse>>
  /\ UNCHANGED <<monitorVars, chanVars, other, editorVars, frame>>

\* onLoad / onError of the frame <img>, rendered while !imgError
LineImgSettle(failed) ==
  /\ lineOpen
  /\ ~lineImg.imgLoaded /\ ~lineImg.imgError
  /\ lineImg' = IF failed THEN [lineImg EXCEPT !.imgError = TRUE]
                ELSE [lineImg EXCEPT !.imgLoaded = TRUE]
  /\ ev' = Ev(IF failed THEN "lineImgError" ELSE "lineImgLoad", 0, TRUE, None)
  /\ UNCHANGED <<lineOpen, pts, draggingRef, linePts, saved, mouse>>
  /\ UNCHANGED <<monitorVars, chanVars, other, editorVars, frame>>

handleMouseDown(m) ==
  /\ CanvasRendered
  /\ draggingRef' = getHit(m, pts)
  /\ mouse' = m
  /\ ev' = Ev("mouseDown", 0, TRUE, None)
  /\ UNCHANGED <<lineOpen, pts, lineImg, linePts, saved>>
  /\ UNCHANGED <<monitorVars, chanVars, other, editorVars, frame>>

handleMouseMove(m) ==
  /\ CanvasRendered
  /\ pts' = IF draggingRef = None THEN pts
            ELSE IF draggingRef = "pt1"
                 THEN [pts EXCEPT !.x1 = toNorm(m).x, !.y1 = toNorm(m).y]
            ELSE [pts EXCEPT !.x2 = toNorm(m).x, !.y2 = toNorm(m).y]
  /\ mouse' = m
  /\ ev' = Ev("mouseMove", 0, TRUE, None)
  /\ UNCHANGED <<lineOpen, draggingRef, lineImg, linePts, saved>>
  /\ UNCHANGED <<monitorVars, chanVars, other, editorVars, frame>>

\* onMouseUp and onMouseLeave
handleMouseUp ==
  /\ CanvasRendered
  /\ draggingRef' = None
  /\ ev' = Ev("mouseUp", 0, TRUE, None)
  /\ UNCHANGED <<lineOpen, pts, lineImg, linePts, saved, mouse>>
  /\ UNCHANGED <<monitorVars, chanVars, other, editorVars, frame>>

handleSwap ==
  /\ lineOpen
  /\ pts' = Swap(pts)
  /\ ev' = Ev("swap", 0, TRUE, None)
  /\ UNCHANGED <<lineOpen, draggingRef, lineImg, linePts, saved, mouse>>
  /\ UNCHANGED <<monitorVars, chanVars, other, editorVars, frame>>

\* variant: the page keeps the edited line when the editor is closed
onCloseKeeps ==
  /\ lineOpen
  /\ lineOpen' = FALSE
  /\ linePts' = pts
  /\ pts' = pts
  /\ draggingRef' = None
  /\ lineImg' = [imgLoaded |-> FALSE, imgError |-> FALSE]
  /\ ev' = Ev("cancel", 0, TRUE, None)
  /\ UNCHANGED <<saved, mouse>>
  /\ UNCHANGED <<monitorVars, chanVars, other, editorVars, frame>>

\* Batal and the close button: onClose(); the page stops rendering the
\* editor; pts keeps the abandoned value until the next mount initialises
\* the hook again
onClose ==
  /\ lineOpen
  /\ lineOpen' = FALSE
  /\ pts' = pts
  /\ draggingRef' = None
  /\ lineImg' = [imgLoaded |-> FALSE, imgError |-> FALSE]
  /\ ev' = Ev("cancel", 0, TRUE, None)
  /\ UNCHANGED <<linePts, saved, mouse>>
  /\ UNCHANGED <<monitorVars, chanVars, other, editorVars, frame>>

\* Simpan: onSave(pts); the page persists the line and stops rendering the
\* editor
onSave ==
  /\ lineOpen
  /\ saved' = <<pts>>
  /\ linePts' = pts
  /\ lineOpen' = FALSE
  /\ pts' = pts
  /\ draggingRef' = None
  /\ lineImg' = [imgLoaded |-> FALSE, imgError |-> FALSE]
  /\ ev' = Ev("save", 0, TRUE, None)
  /\ UNCHANGED mouse
  /\ UNCHANGED <<monitorVars, chanVars, other, editorVars, frame>>

\* the page shows the bus with its stored line; no zone editor is mounted
InitLine ==
  /\ MonitorUnmounted
  /\ EditorUnmounted
  /\ ev = Ev("init", 0, FALSE, None)

\* canvas positions of the pointer; the first lies left of the canvas and
\* the last below it
MousePoints == {[x |-> x, y |-> y] : x \in MouseXs, y \in MouseYs}

NextLine ==
  \/ OpenLine
  \/ \E f \in BOOLEAN : LineImgSettle(f)
  \/ \E m \in MousePoints : handleMouseDown(m)
  \/ \E m \in MousePoints : handleMouseMove(m)
  \/ handleMouseUp
  \/ handleSwap
  \/ onClose
  \/ onSave

SpecLine == InitLine /\ [][NextLine]_vars

\* single clicks on an empty draft
NextTransform ==
  \/ \E d \in Clicks(box) : drawing = <<>> /\ handleCanvasClick(d)
  \/ drawing # <<>> /\ cancelDrawing

SpecTransform == InitTransform /\ [][NextTransform]_vars

\* a camera view whose session is running and whose effects have run: the
\* feed is shown, the 2000 ms interval is armed and the socket is open
InitChannel ==
  /\ kind = "camera"
  /\ mounted = TRUE
  /\ entityId = 1
  /\ status = "running"
  /\ loading = FALSE
  /\ error = ""
  /\ sub = [ent |-> 1, run |-> TRUE]
  /\ timers = SetInterval(<<>>, 1, TRUE)
  /\ reqs = EmptyBag
  /\ img = Render("running", 1, [mounted |-> FALSE, src |-> NoSrc])
  /\ worker = [e \in EntityIds |-> "running"]
  /\ ev = Ev("effectsClass", 1, TRUE, None)
  /\ ws = Connect("camera", <<>>, 1, TRUE)
  /\ recentDetections = <<>>
  /\ received = <<>>
  /\ other = NoOther
  /\ EditorUnmounted

\* the detections the server pushes for either camera
DetectionFrames == {f \in Frames : f.wf /\ f.type = DetectionType /\ f.n = 0}

\* a running camera view that receives detections while it polls, is
\* stopped and is given another cameraId
NextBuffer ==
  \/ \E i \in 1..Len(ws), f \in DetectionFrames :
        Len(received) < MaxBuffered /\ onmessage(i, f)
  \/ \E e \in EntityIds : SwitchEntity(e)
  \/ FlushEffects
  \/ \E i \in 1..Len(timers) : TimerTick(i)
  \/ \E r \in BagToSet(reqs), f \in BOOLEAN : CheckSettle(r, f)
  \/ handleStop
  \/ \E r \in BagToSet(reqs), f \in BOOLEAN, d \in Details : StopSettle(r, f, d)
  \/ \E r \in BagToSet(reqs) : BackendReply(r)

SpecBuffer == InitChannel /\ [][NextBuffer]_vars

NextChannel == \E i \in 1..Len(ws), f \in Frames : onmessage(i, f)

SpecChannel == InitChannel /\ [][NextChannel]_vars

TypeOK ==
  /\ kind \in Kinds
  /\ mounted \in BOOLEAN
  /\ entityId \in EntityIds
  /\ status \in StatusValues \cup {NoStatus}
  /\ loading \in BOOLEAN
  /\ InFlight <= MaxInFlight
  /\ \A e \in EntityIds : worker[e] \in StatusValues
\* ------------------------------------------------------------ properties
Count(rs, ops) == BagCardinality([r \in {x \in BagToSet(rs) : x.op \in ops} |-> rs[r]])

ActivePolls(rs) == BagCardinality([r \in {x \in BagToSet(rs) : x.op = "poll" /\ x.act} |-> rs[r]])

\* C1 (as stated): when stop is requested on a running session the local
\* status reads stopped in the step of the request itself.
C1_StopSetsStoppedAtRequest ==
  [][(ev'.op = "stopClick" /\ status = "running") => status' = "stopped"]_vars

\* C1 (amended): the stop request leaves the local status unchanged; the step
\* that processes the successful stop response sets it at once, without a
\* poll, to stopped (to unknown in the camera view or when it was unknown),
\* and the feed is no longer rendered.
C1_StopSetsStoppedOnResponse ==
  [][/\ ev'.op = "stopClick" => status' = status
     /\ (ev'.op = "stopOk" /\ ev'.act) =>
          /\ status' = (IF kind = "camera" \/ status = NoStatus THEN NoStatus ELSE "stopped")
          /\ ~img'.mounted]_vars

C1_Witness == ev.op = "stopOk" /\ ev.act /\ status = "stopped" /\ ~loading

\* C2: once stop has set the local status to stopped, the poll result that is
\* processed next does not change it to running or starting.
C2_NoResurrection ==
  [][(ev.op = "stopOk" /\ ev.act /\ status = "stopped" /\ ev'.op \in {"pollOk", "pollFail"})
        => status' \notin {"running", "starting"}]_vars

\* C3: a mounted view has exactly one armed polling timer and an unmounted
\* view none; once the effects have settled the period is 2000 ms for a
\* running or starting status and 5000 ms otherwise, for the current entity.
C3_OneTimerAdaptivePeriod ==
  /\ mounted => (Len(timers) = 1 /\ timers[1].act /\ timers[1].ent = sub.ent)
  /\ ~mounted => timers = <<>>
  /\ (mounted /\ sub = Deps) =>
        /\ timers[1].period = (IF status \in {"running", "starting"} THEN 2000 ELSE 5000)
        /\ timers[1].ent = entityId

C3_Witness ==
  /\ mounted /\ sub = Deps /\ ev.op = "effectsEntity"
  /\ Len(timers) = 1 /\ timers[1].period = 2000 /\ timers[1].ent = 2

\* C4: a failed poll of the live subscription sets the cached status to
\* unknown and leaves the one armed timer of the same entity in place; a
\* later successful poll writes a known status again; and after the failure
\* another poll is issued (by a tick of the armed timer or by a rebuilt
\* poller) unless the view is unmounted.
C4_FailedPollKeepsPolling ==
  /\ [][/\ (ev'.op = "pollFail" /\ ev'.act) =>
             /\ status' = NoStatus
             /\ timers' = timers /\ Len(timers') = 1 /\ timers'[1].act
             /\ timers'[1].ent = entityId' \/ sub' # Deps'
        /\ (ev'.op = "pollOk" /\ ev'.act) => status' \in StatusValues]_vars
  /\ (ev.op = "pollFail" /\ ev.act) ~>
        (~mounted \/ ev.op \in {"tick", "effectsEntity", "effectsClass"})

C4_Witness == ev.op = "pollFail" /\ ev.act /\ status = NoStatus /\ mounted /\ Len(timers) = 1

\* C5: a failed start, stop or follow-up status fetch leaves the local status
\* as it was, sets a non-empty error message and ends loading; requesting a
\* command writes nothing to the status either.
C5_FailedCommandKeepsStatus ==
  [][/\ (ev'.op \in {"startFail", "stopFail", "fetchFail"} /\ ev'.act) =>
          (status' = status /\ error' # "" /\ ~loading')
     /\ ev'.op \in {"startClick", "stopClick", "startOk"} => status' = status]_vars

C5_Witness == ev.op = "fetchFail" /\ ev.act /\ error = AxiosMessage /\ status = NoStatus

\* C6: every teardown (unmount, entity change, classification change) leaves
\* no poll of the old subscription active, and the result of an inactive
\* poll, success or failure, changes neither the status nor the feed.
C6_TornDownPollDiscarded ==
  [][/\ (ev'.op \in {"pollOk", "pollFail"} /\ ~ev'.act) => (status' = status /\ img' = img)
     /\ ev'.op \in {"effectsEntity", "effectsClass"} => ActivePolls(reqs') = 1
     /\ ev'.op = "unmount" => ActivePolls(reqs') = 0]_vars

C6_Witness == ev.op = "pollOk" /\ ~ev.act /\ mounted /\ status = NoStatus

\* C7: at most one status request (poll or follow-up fetch) is in flight.
C7_OneStatusRequestInFlight == Count(reqs, {"poll", "fetch"}) <= 1

\* C8 (as stated): the start click sets the status to starting, stop sets it
\* to stopped, and nothing but start, a poll result or stop changes it.
C8_StartSetsStarting ==
  [][/\ ev'.op = "startClick" => status' = "starting"
     /\ (mounted' /\ status' # status) =>
          ev'.op \in {"startClick", "pollOk", "pollFail", "fetchOk", "stopOk"}]_vars

\* C8 (amended): the start click issues the start command and sets loading,
\* leaving the status unchanged; the successful command is followed by a
\* status fetch whose result replaces the status; while mounted the status
\* changes only by a poll result, that fetch result, or a successful stop
\* (to stopped or unknown).
C8_StartThenFetch ==
  [][/\ ev'.op = "startClick" =>
          /\ status' = status /\ loading'
          /\ Count(reqs', {"start"}) = Count(reqs, {"start"}) + 1
     /\ ev'.op = "startOk" =>
          /\ status' = status
          /\ Count(reqs', {"start"}) = Count(reqs, {"start"}) - 1
          /\ Count(reqs', {"fetch"}) = Count(reqs, {"fetch"}) + 1
     /\ (ev'.op = "fetchOk" /\ ev'.act) => (status' \in StatusValues /\ ~loading')
     /\ (mounted' /\ status' # status) =>
          /\ ev'.op \in {"pollOk", "pollFail", "fetchOk", "stopOk"}
          /\ ev'.op = "stopOk" => status' \in {"stopped", NoStatus}]_vars

C8_Witness == ev.op = "fetchOk" /\ ev.act /\ status = "starting" /\ ~loading

\* C9: every step that cancels the poller's timer on a teardown path (the
\* view unmounts, the entity changes, a running session is no longer running)
\* leaves the feed sink's source attribute cleared.
C9_TeardownClearsSink ==
  [][(/\ timers # <<>> /\ timers' # timers
      /\ ~mounted' \/ sub.ent # entityId \/ (sub.run /\ ~isRunning(status)))
        => img'.src = NoSrc]_vars

\* C10: the feed sink is rendered with an MJPEG URL only while the local
\* status is running or starting, and then with the current entity's URL.
C10_FeedBoundOnlyWhileRunning ==
  img.mounted => (mounted /\ status \in {"running", "starting"} /\ img.src = entityId)

C10_Witness == ev.op = "stopOk" /\ ev.act /\ status = "stopped" /\ ~img.mounted /\ img.src = entityId

Reverse(s) == [i \in 1..Len(s) |-> s[Len(s) + 1 - i]]

Parsed(fs) == [i \in 1..Len(fs) |-> JsonParse(fs[i])]

ForCurrent(f) == f.wf /\ f.camera_id = entityId /\ f.type = "live_detection"

\* C12: after any sequence of delivered frames the buffer of the consumer for
\* camera A is the sequence of delivered events with entity A and the
\* detection type, newest first, duplicates kept, cut to the 10 newest.
C12_BufferIsNewestTenOfEntity ==
  LET kept == Reverse(Parsed(SelectSeq(received, ForCurrent)))
  IN recentDetections = SubSeq(kept, 1, IF Len(kept) < 10 THEN Len(kept) ELSE 10)

C12_Witness ==
  /\ Len(SelectSeq(received, ForCurrent)) = 11
  /\ Len(received) = 12
  /\ received[5].camera_id = 2
  /\ Len(recentDetections) = 10
  /\ recentDetections[1] = recentDetections[2]
  /\ recentDetections[2] # recentDetections[3]
  /\ received[1].n # recentDetections[10].n

\* C13: a frame that fails to parse leaves the buffer, the error message,
\* the status and the socket as they were, and a wanted frame delivered
\* after it is put at the head of the buffer.
C13_ParseFailureDropped ==
  [][/\ (ev'.op = "message" /\ ~ev'.act) =>
          /\ recentDetections' = recentDetections
          /\ error' = error /\ status' = status
          /\ ws' = ws /\ ws' # <<>>
     /\ (/\ ev'.op = "message"
         /\ \E j \in 1..Len(received) : ~received[j].wf
         /\ ForCurrent(received'[Len(received')])) =>
          /\ recentDetections' # <<>>
          /\ recentDetections'[1].n = received'[Len(received')].n
          /\ recentDetections'[1].camera_id = entityId]_vars

C13_Witness ==
  /\ Len(received) >= 2
  /\ ~received[Len(received) - 1].wf
  /\ ForCurrent(received[Len(received)])
  /\ recentDetections # <<>>
  /\ recentDetections[1] = JsonParse(received[Len(received)])
  /\ ws # <<>> /\ status = "running" /\ error = ""

\* C14: with two sessions for different entities, a failed poll or a failed
\* start, stop or follow-up fetch of one session leaves the status, the error
\* message, the polling timer and the event channel of the other session, and
\* the other entity's worker, as they were - in both directions.
C14_FailureContained ==
  [][/\ ev'.op \in {"pollFail", "startFail", "stopFail", "fetchFail"} =>
          /\ other'.status = other.status /\ other'.error = other.error
          /\ other'.timers = other.timers /\ other'.ws = other.ws
          /\ worker'[other.ent] = worker[other.ent]
     /\ ev'.op = "otherPollFail" =>
          /\ status' = status /\ error' = error /\ timers' = timers /\ ws' = ws
          /\ worker' = worker]_vars

C14_Witness ==
  /\ ev.op = "startFail" /\ ev.act /\ error = "rejected" /\ mounted /\ Len(timers) = 1
  /\ other.status = "running" /\ other.error = ""
  /\ Len(other.timers) = 1 /\ other.timers[1].period = 2000 /\ other.ws = <<[ent |-> 2]>>

\* C15: unmounting a view cancels its timer and deactivates its polls but
\* sends nothing to the backend: a stop command is issued only by a click on
\* stop, the worker changes state only by its own steps or a command it
\* handles, and a view mounted afterwards issues a first poll whose answer,
\* the worker's state, becomes its status.
C15_WorkerOutlivesView ==
  [][/\ ev'.op = "unmount" =>
          /\ timers' = <<>> /\ ActivePolls(reqs') = 0
          /\ worker' = worker
          /\ BagCardinality(reqs') = BagCardinality(reqs)
     /\ Count(reqs', {"stop"}) > Count(reqs, {"stop"}) => ev'.op = "stopClick"
     /\ worker' # worker => ev'.op = "env"
     /\ ev'.op = "mount" =>
          /\ worker' = worker
          /\ ActivePolls(reqs') = 1
          /\ \E r \in BagToSet(reqs') : r.op = "poll" /\ r.act /\ r.ent = entityId' /\ r.res = "sent"
     /\ (ev'.op = "pollOk" /\ ev'.act) =>
          \E r \in BagToSet(reqs) : r.op = "poll" /\ r.act /\ r.res = "ok" /\ status' = r.data]_vars

C15_Witness ==
  /\ ev.op = "mount" /\ mounted /\ status = NoStatus
  /\ worker[entityId] = "running"
  /\ Count(reqs, {"stop"}) = 0
  /\ ActivePolls(reqs) = 1

NatCoords == 0..MaxSize \cup {540, 960, 1080, 1920}

NatGrid(b) == {[x |-> Rat(x), y |-> Rat(y)] : x \in {c \in NatCoords : c <= b.nw},
                                             y \in {c \in NatCoords : c <= b.nh}}

\* d lies strictly inside the rendered rectangle of the frame
InRendered(d, b) ==
  LET g == getImageBounds(b)
  IN /\ RLess(g.ox, d.x) /\ RLess(d.x, RAdd(g.ox, g.rw))
     /\ RLess(g.oy, d.y) /\ RLess(d.y, RAdd(g.oy, g.rh))

\* C19 (as stated): a click appends the inverse-transformed point (contain
\* scaling with its letterbox offsets) exactly when that point lies in
\* [0,nw] x [0,nh], and otherwise leaves the draft unchanged; with container
\* 800x800 and frame 1920x1080 the click (400,175) appends (960,0) and the
\* click (400,50) is rejected.
C19_LetterboxClickRejected ==
  [][ev'.op = "click" =>
       LET nat == displayToNat("letterbox", click', box)
           inFrame == /\ ~RLess(nat.x, Rat(0)) /\ ~RLess(Rat(box.nw), nat.x)
                      /\ ~RLess(nat.y, Rat(0)) /\ ~RLess(Rat(box.nh), nat.y)
       IN /\ drawing' = IF inFrame THEN Append(drawing, nat) ELSE drawing
          /\ (box = Wide /\ click' = Pt(400, 175)) => drawing' = Append(drawing, Pt(960, 0))
          /\ (box = Wide /\ click' = Pt(400, 50)) => drawing' = drawing]_vars

\* C20: for every container and frame size, every native point strictly
\* inside the frame is returned by inverse after forward, every display point
\* strictly inside the rendered rectangle is returned by forward after
\* inverse, and the vertex a click appended is drawn back under that click.
C20_RoundTrip ==
  editorKind # "none" =>
    /\ \A p \in NatGrid(box) :
          InRendered(natToDisplay(editorKind, p, box), box) =>
             displayToNat(editorKind, natToDisplay(editorKind, p, box), box) = p
    /\ \A d \in Clicks(box) :
          InRendered(d, box) =>
             natToDisplay(editorKind, displayToNat(editorKind, d, box), box) = d
    /\ (Len(drawing) = 1 /\ ev.op = "click") =>
          natToDisplay(editorKind, drawing[1], box) = click

C20_Witness ==
  /\ editorKind = "letterbox" /\ ev.op = "click" /\ Len(drawing) = 1
  /\ InRendered(click, box)
  /\ getImageBounds(box).ox.d > 1
  /\ drawing[1].x.d > 1

\* ---------------------------------------------------------------------------
\* Zone editor: commit and delete

\* the draft cannot be committed: fewer than three vertices, or a label of
\* blanks only
InvalidDraft == Len(drawing) < 3 \/ \A i \in 1..Len(label) : label[i] = " "

SaveOps == {"saveDisabled", "saveInvalid", "saveClick"}

NoBlanks(l) == SelectSeq(l, LAMBDA c : c # " ")

Creates(b) == Count(b, {"create"})

\* C17: a valid commit issues exactly one create call, which carries the
\* trimmed label and the vertices in drawing order, and keeps the draft; the
\* draft is cleared by the commit only when the call has succeeded; when the
\* call fails the draft is left as it is and an error text is shown.
C17_ValidCommit ==
  [][/\ (ev'.op \in SaveOps /\ ~InvalidDraft /\ ~saving) => ev'.op = "saveClick"
     /\ ev'.op = "saveClick" =>
          /\ Creates(edReqs) = 0
          /\ \E r \in BagToSet(edReqs') :
                /\ r.op = "create" /\ r.res = "sent"
                /\ r.label = NoBlanks(label)
                /\ r.polygon = drawing
                /\ edReqs' = edReqs (+) One(r)
          /\ drawing' = drawing /\ label' = label
     /\ ev'.op = "createOk" =>
          /\ \E r \in BagToSet(edReqs) : r.op = "create" /\ r.res = "ok"
          /\ drawing' = <<>> /\ label' = <<>>
          /\ editorError' = editorError
     /\ ev'.op = "createFail" =>
          /\ drawing' = drawing /\ label' = label
          /\ editorError' \in {AxiosMessage, "rejected"}
          /\ ~saving'
     /\ (drawing # <<>> /\ drawing' = <<>>) =>
          \/ ev'.op \in {"createOk", "cancel"}
          \/ ev'.op = "undo" /\ Len(drawing) = 1]_vars

C17_Witness ==
  /\ ev.op = "createOk"
  /\ drawing = <<>>
  /\ label = <<>>
  /\ \E z \in zones : z.label = <<"A">> /\ z.n = 3


Lists(b) == Count(b, {"list"})

\* C18: a delete never removes the zone from the local list itself: the list
\* changes only by being replaced with a list the backend returned; a delete
\* that succeeded is followed by a re-fetch, and a delete that was rejected
\* leaves the list unchanged and fetches nothing.
C18_ListOnlyReplaced ==
  [][/\ spaces' # spaces =>
          /\ ev'.op = "listOk"
          /\ \E r \in BagToSet(edReqs) :
                r.op = "list" /\ r.res = "ok" /\ spaces' = r.data
     /\ ev'.op = "deleteClick" =>
          /\ spaces' = spaces
          /\ Count(edReqs', {"delete"}) = Count(edReqs, {"delete"}) + 1
     /\ ev'.op = "deleteOk" =>
          /\ spaces' = spaces
          /\ Lists(edReqs') = Lists(edReqs) + 1
     /\ ev'.op = "deleteFail" =>
          /\ spaces' = spaces
          /\ Lists(edReqs') = Lists(edReqs)]_vars

\* the delete has succeeded: the zone is gone from the backend, still in the
\* local list, and the re-fetch is on its way
C18_Witness ==
  /\ ev.op = "deleteOk"
  /\ zones = {}
  /\ spaces # {}
  /\ \E r \in BagToSet(edReqs) : r.op = "list" /\ r.from = "delete"


\* ---------------------------------------------------------------------------
\* Line editor

RNeg(a) == [n |-> -a.n, d |-> a.d]

\* the endpoints in canvas pixels
Px(p) == [x1 |-> RMul(p.x1, Rat(CanvasW)), y1 |-> RMul(p.y1, Rat(CanvasH)),
          x2 |-> RMul(p.x2, Rat(CanvasW)), y2 |-> RMul(p.y2, Rat(CanvasH))]

\* (dy, -dx) and the squared length it is divided by: two lines have the
\* same unit normal iff both agree (or both have length 0)
Normal(p) ==
  LET px == Px(p)
      dx == RSub(px.x2, px.x1)
      dy == RSub(px.y2, px.y1)
  IN [x |-> dy, y |-> RNeg(dx), len2 |-> RAdd(RMul(dx, dx), RMul(dy, dy))]

Sign(a) == IF a.n > 0 THEN 1 ELSE IF a.n < 0 THEN -1 ELSE 0

\* 1 where the pixel q lies on the in side of the line with the pixel
\* endpoints px and the normal n, -1 on the out side
Side(px, n, q) ==
  Sign(RAdd(RMul(RSub(Rat(q.x), px.x1), n.x), RMul(RSub(Rat(q.y), px.y1), n.y)))

SideOf(p, q) == Side(Px(p), Normal(p), q)

Pixels == {[x |-> x, y |-> y] : x \in {0, 25, 100}, y \in {0, 40, 100}}

\* C21: swap exchanges p1 and p2, a second swap restores the line, and one
\* swap negates the normal (dy, -dx) / len, so that every pixel on the in
\* side before the swap is on the out side after it and conversely.
C21_SwapInvertsSides ==
  [][ev'.op = "swap" =>
       /\ pts'.x1 = pts.x2 /\ pts'.y1 = pts.y2
       /\ pts'.x2 = pts.x1 /\ pts'.y2 = pts.y1
       /\ Swap(pts') = pts
       /\ LET n == Normal(pts)
              m == Normal(pts')
              a == Px(pts)
              b == Px(pts')
          IN /\ m.x = RNeg(n.x) /\ m.y = RNeg(n.y) /\ m.len2 = n.len2
             /\ \A q \in Pixels : Side(b, m, q) = -Side(a, n, q)]_vars

\* the line p1 = (0.2, 0.5), p2 = (0.8, 0.5) has been swapped: its normal,
\* which pointed up the screen, points down
C21_Witness ==
  /\ ev.op = "swap"
  /\ pts = Line(Norm(4, 5), Norm(1, 2), Norm(1, 5), Norm(1, 2))
  /\ Sign(Normal(pts).y) = 1
  /\ Sign(Normal(DefaultLine).y) = -1
  /\ SideOf(pts, [x |-> 50, y |-> 0]) = -1
  /\ SideOf(DefaultLine, [x |-> 50, y |-> 0]) = 1


InUnit(a) == ~RLess(a, Rat(0)) /\ ~RLess(Rat(1), a)

LineInUnit(p) == InUnit(p.x1) /\ InUnit(p.y1) /\ InUnit(p.x2) /\ InUnit(p.y2)

\* C22: after any sequence of drags and swaps that starts from endpoints in
\* the unit square, every coordinate of both endpoints is in [0,1], also
\* when the pointer position lies outside the canvas.
C22_EndpointsInUnitSquare ==
  /\ LineInUnit(pts)
  /\ LineInUnit(linePts)
  /\ \A i \in 1..Len(saved) : LineInUnit(saved[i])

\* p1 has been dragged to a pointer position left of and below the canvas
C22_Witness ==
  /\ ev.op = "mouseMove"
  /\ draggingRef = "pt1"
  /\ mouse = [x |-> -10, y |-> 120]
  /\ pts.x1 = Rat(0)
  /\ pts.y1 = Rat(1)


\* C23: the persist callback is invoked only by the save button, with the
\* endpoints the editor holds at that moment; mouse gestures, swap and cancel
\* persist nothing; the editing session that follows a cancel starts from the
\* line persisted last, not from the abandoned edits.
C23_PersistOnlyOnSave ==
  [][/\ (saved' # saved \/ linePts' # linePts) => ev'.op = "save"
     /\ ev'.op = "save" => saved' = <<pts>> /\ linePts' = pts
     /\ ev'.op \in {"mouseDown", "mouseMove", "mouseUp", "swap", "cancel"} =>
          saved' = saved /\ linePts' = linePts
     /\ ev'.op = "lineOpen" => pts' = linePts]_vars

\* edits have been abandoned: the editor is closed, nothing was persisted
C23_Witness ==
  /\ ev.op = "cancel"
  /\ ~lineOpen
  /\ pts # linePts
  /\ saved = <<>>
  /\ linePts = DefaultLine


\* the squared pixel distance of the pointer m from the endpoint (x, y);
\* the endpoints of the model fall on whole pixels
Dist2(m, x, y) ==
  LET px == (x.n * CanvasW) \div x.d
      py == (y.n * CanvasH) \div y.d
  IN (m.x - px) * (m.x - px) + (m.y - py) * (m.y - py)

Hits1(m, p) == Dist2(m, p.x1, p.y1) < 14 * 14

Hits2(m, p) == Dist2(m, p.x2, p.y2) < 14 * 14

\* C24: the active endpoint is chosen at mouse-down, as the endpoint within
\* 14 pixels of the pointer (p1 when both are, none when neither is); it
\* changes only at mouse-down and at mouse-up or mouse-leave; a pointer move
\* changes only the active endpoint, to the clamped pointer position, and
\* changes no endpoint when none is active.
C24_OneActiveEndpoint ==
  [][/\ ev'.op = "mouseDown" =>
          /\ draggingRef' = IF Hits1(mouse', pts) THEN "pt1"
                            ELSE IF Hits2(mouse', pts) THEN "pt2" ELSE None
          /\ pts' = pts
     /\ ev'.op = "mouseMove" =>
          /\ draggingRef' = draggingRef
          /\ draggingRef = None => pts' = pts
          /\ draggingRef = "pt1" =>
                /\ pts'.x2 = pts.x2 /\ pts'.y2 = pts.y2
                /\ InUnit(pts'.x1) /\ InUnit(pts'.y1)
                /\ mouse'.x \in 0..CanvasW => pts'.x1 = Norm(mouse'.x, CanvasW)
                /\ mouse'.y \in 0..CanvasH => pts'.y1 = Norm(mouse'.y, CanvasH)
          /\ draggingRef = "pt2" =>
                /\ pts'.x1 = pts.x1 /\ pts'.y1 = pts.y1
                /\ InUnit(pts'.x2) /\ InUnit(pts'.y2)
                /\ mouse'.x \in 0..CanvasW => pts'.x2 = Norm(mouse'.x, CanvasW)
                /\ mouse'.y \in 0..CanvasH => pts'.y2 = Norm(mouse'.y, CanvasH)
     /\ ev'.op = "mouseUp" => draggingRef' = None /\ pts' = pts
     /\ draggingRef' # draggingRef =>
          ev'.op \in {"mouseDown", "mouseUp", "cancel", "save"}]_vars

\* both endpoints lie within the radius of the pointer and p1 is active
C24_Witness ==
  /\ ev.op = "mouseDown"
  /\ Hits1(mouse, pts)
  /\ Hits2(mouse, pts)
  /\ pts.x1 # pts.x2
  /\ draggingRef = "pt1"


\* ---------------------------------------------------------------------------
\* Contain bounds

\* C25: when nw/nh > cw/ch the rendered rectangle is cw wide and cw*nh/nw
\* high, at offset (0, (ch - renderedH)/2); otherwise it is ch high and
\* ch*nw/nh wide, at offset ((cw - renderedW)/2, 0).  A 1920x1080 frame in a
\* 800x450 container is rendered 800x450 at offset (0,0), and the click
\* (400,225) appends the native point (960,540).
C25_ContainBounds ==
  LET g == getImageBounds(box)
  IN /\ IF box.nw * box.ch > box.cw * box.nh
        THEN /\ g.rw = Rat(box.cw)
             /\ g.rh = Norm(box.cw * box.nh, box.nw)
             /\ g.ox = Rat(0)
             /\ g.oy = Norm(box.ch * box.nw - box.cw * box.nh, 2 * box.nw)
        ELSE /\ g.rh = Rat(box.ch)
             /\ g.rw = Norm(box.ch * box.nw, box.nh)
             /\ g.oy = Rat(0)
             /\ g.ox = Norm(box.cw * box.nh - box.ch * box.nw, 2 * box.nh)
     /\ box = Fit => g = [rw |-> Rat(800), rh |-> Rat(450), ox |-> Rat(0), oy |-> Rat(0)]
     /\ (box = Fit /\ ev.op = "click" /\ click = Pt(400, 225)) =>
          drawing = <<Pt(960, 540)>>

C25_Witness ==
  /\ box = Fit
  /\ editorKind = "letterbox"
  /\ ev.op = "click"
  /\ click = Pt(400, 225)
  /\ drawing = <<Pt(960, 540)>>


\* C26: the parking-space editor, the bus-seat editor and the line editor
\* compute the same frame position for every display point, container size
\* and native size.
C26_OneMapping ==
  ev.op = "click" =>
    /\ displayToNat("stretch", click, box) = displayToNat("letterbox", click, box)
    /\ lineToNat(click, box) = displayToNat("letterbox", click, box)


\* ---------------------------------------------------------------------------
\* Frame failure

\* C27: when the still frame fails to load, the zone editor keeps its
\* editing operations available: the canvas that takes the clicks is
\* rendered, so a vertex can still be appended.
C27_EditingSurvivesFrameFailure ==
  ev.op = "imgError" => ZoneCanvasRendered


\* ---------------------------------------------------------------------------
\* Buffer of the camera view

\* C28: the recent-detections buffer of a mounted camera view is emptied
\* only by the continuation of a stop command that succeeded; a change of
\* cameraId, a poll, a failed stop and the effect run that closes or reopens
\* the socket leave it as it is.
C28_BufferEmptiedOnlyByStop ==
  [][/\ (recentDetections # <<>> /\ recentDetections' = <<>>) => ev'.op = "stopOk"
     /\ recentDetections' # recentDetections => ev'.op \in {"stopOk", "message"}
     /\ ev'.op \in {"switch", "pollFail", "stopFail", "effectsEntity", "effectsClass"} =>
          recentDetections' = recentDetections
     /\ (ws' # ws /\ ev'.op # "message") => recentDetections' = recentDetections]_vars

\* the view has been given camera 2 and its socket has been reopened for
\* it; the buffer still holds the detection of camera 1
C28_Witness ==
  /\ ev.op = "effectsEntity"
  /\ entityId = 2
  /\ Len(ws) = 1 /\ ws[1].ent = 2
  /\ Len(recentDetections) = 1 /\ recentDetections[1].camera_id = 1


\* ---------------------------------------------------------------------------
\* Status responses and the entity of the view

\* the request whose continuation runs in this step
Settles(r) == CopiesIn(r, reqs') < CopiesIn(r, reqs)

\* C29: once the poll effect has re-run for the view's current entityId, a
\* status response that is written to the view (a poll result or the
\* follow-up status fetch of a start command) was requested for that
\* entityId.
C29_StatusOnlyForCurrentEntity ==
  [][\A r \in BagToSet(reqs) :
       (/\ Settles(r)
        /\ ev'.op \in {"pollOk", "pollFail", "fetchOk"}
        /\ ev'.act
        /\ mounted /\ sub.ent = entityId)
       => r.ent = entityId]_vars


\* ---------------------------------------------------------------------------
\* Commit of a zone while the draft is edited

CreateCalls(b) == {r \in BagToSet(b) : r.op = "create"}

\* C30: the create call of a commit carries the vertex list of the moment
\* of the click; a vertex appended or undone, a cancelled draft or a changed
\* label while the call is in flight changes no call; at most one create
\* call of the editor is in flight; when the call has succeeded the whole
\* draft is cleared, whatever it holds by then.
C30_CommitSnapshot ==
  [][/\ ev'.op = "saveClick" =>
          /\ CreateCalls(edReqs) = {}
          /\ CreateCalls(edReqs') = {EdReq("create", Trim(label), drawing, 0, "save")}
     /\ ev'.op \in {"click", "undo", "cancel", "label"} => edReqs' = edReqs
     /\ \A r \in CreateCalls(edReqs') :
          r \notin CreateCalls(edReqs) =>
             \/ ev'.op = "saveClick"
             \/ \E q \in CreateCalls(edReqs) : r.polygon = q.polygon /\ r.label = q.label
     /\ Creates(edReqs') <= 1
     /\ ev'.op = "createOk" => drawing' = <<>> /\ label' = <<>>]_vars

\* the backend has stored the zone of a commit whose draft has since been
\* changed to another full vertex list
C30_Witness ==
  /\ \E r \in CreateCalls(edReqs) :
        /\ r.res = "ok"
        /\ Len(drawing) = Len(r.polygon)
        /\ drawing # r.polygon
  /\ saving
  /\ ev.op = "click"
  /\ \E z \in zones : z.n = MinPoints

====
